---- MODULE Spec2Model ----
(***************************************************************************)
(* A model of pytube's core developer interface, class YouTube of          *)
(* pytube/__main__.py: the constructor, prefetch(), init(),                *)
(* prefetch_init(), initialize_stream_objects(), the memoized `streams`    *)
(* property and the two callback registration methods.                     *)
(*                                                                         *)
(* The collaborators the class imports (request, extract, mixins, Stream,  *)
(* StreamQuery, helpers.memoize, helpers.apply_mixin, compat.parse_qsl)    *)
(* are modelled from their contracts in the specification.                 *)
(***************************************************************************)
EXTENDS Integers, Sequences, FiniteSets, TLC

VARIABLES
    yt,      \* yt[s]: the attributes of YouTube object s
    heap,    \* heap[r]: the monostate dictionary with reference r
    cache,   \* cache[s]: memoize's stored result of the `streams` property
    out,     \* the last call made: its object, error, stages run, argument and result
    calls,   \* calls[s]: the number of prefetch() and of init() calls made on s,
             \* and how many calls the user made on s after its construction
    seen,    \* seen[s]: the collection the last access of `streams` on s returned
    last,    \* last[s]: the last prefetch() or init() call made on s, with the error
             \* it raised and the stages it started
    plan     \* the scenario: the sessions the caller creates, the urls it gives
             \* them, the calls it makes on each, and the content the transport
             \* serves (Unpinned: any)

vars == <<yt, heap, cache, out, calls, last, seen, plan>>

----------------------------------------------------------------------------
(* Bounds *)

\* prefetch(), init() and initialize_stream_objects() calls a caller makes on
\* one session after its construction, those made through prefetch_init()
\* included
MaxCalls == 2

Sessions == {"A", "B"}

----------------------------------------------------------------------------
(* Values *)

\* Python's None
None == [t |-> "None"]

\* the progressive and the adaptive manifest key (lines 98-99)
progressive_fmts == "url_encoded_fmt_stream_map"
adaptive_fmts == "adaptive_fmts"
Fmts == {progressive_fmts, adaptive_fmts}

\* One stream variant inside an encoded manifest string: its itag, its
\* scrambled access token `s`, still percent-encoded, without signature.
RawEntry(fmt, i) ==
    [itag |-> i, kind |-> fmt, s |-> <<i, i + 1>>, encoded |-> TRUE, signature |-> <<>>]

\* A value stored under a manifest key: the key is absent, it holds a manifest
\* string (well-formed or with a malformed delimiter structure), or it holds
\* the descrambled list of entries.
Absent == [t |-> "absent", ok |-> TRUE, v |-> <<>>]
Malformed == [t |-> "str", ok |-> FALSE, v |-> <<>>]
Str(entries) == [t |-> "str", ok |-> TRUE, v |-> entries]
List(entries) == [t |-> "list", ok |-> TRUE, v |-> entries]

\* the manifests a page may carry under key fmt: the empty string or two
\* variants (progressive); a malformed string, none or one variant (adaptive)
ManifestStrings(fmt) ==
    IF fmt = progressive_fmts
    THEN {Str(<<>>), Str(<<RawEntry(fmt, 1), RawEntry(fmt, 2)>>)}
    ELSE {Malformed, Absent, Str(<<RawEntry(fmt, 3)>>)}

\* Page markup: with or without the embedded player config; its config args
\* carry the two manifests and the player_response text.
NoMarkerHtml ==
    [t |-> "html", marker |-> FALSE, args |->
        [url_encoded_fmt_stream_map |-> Absent, adaptive_fmts |-> Absent,
         player_response |-> "text"]]
Htmls ==
    {NoMarkerHtml} \cup
    {[t |-> "html", marker |-> TRUE, args |->
        [url_encoded_fmt_stream_map |-> p, adaptive_fmts |-> a,
         player_response |-> "text"]] :
        p \in ManifestStrings(progressive_fmts), a \in ManifestStrings(adaptive_fmts)}

\* Script text: its signature entry point is recognizable or not.
Scripts == {[t |-> "js", entry |-> b] : b \in BOOLEAN}

\* Metadata payload (a non-empty query string): without manifests, with a
\* progressive manifest, with a progressive and a malformed adaptive manifest.
Payload(p, a) == [t |-> "raw", url_encoded_fmt_stream_map |-> p, adaptive_fmts |-> a]
Payloads ==
    {Payload(Absent, Absent),
     Payload(Str(<<RawEntry(progressive_fmts, 1)>>), Absent),
     Payload(Str(<<RawEntry(progressive_fmts, 1)>>), Malformed)}

\* what the transport returns for the three requests of one prefetch()
Responses == [html : Htmls, js : Scripts, info : Payloads]
Unpinned == [t |-> "any"]

\* how one prefetch()'s requests end
FetchOutcomes == {"ok", "page_fails", "batch_fails"}

\* the callback a caller registers after construction
Registered == {"h"}
Urls == {"None", "https://www.youtube.com/watch?v=id"}

----------------------------------------------------------------------------
(* Collaborators *)

\* extract.video_id(url) and extract.watch_url(video_id)
video_id(url) == IF url = "None" THEN "None" ELSE "id"
watch_url(vid) == IF vid = "None" THEN "None" ELSE "https://www.youtube.com/watch?v=id"

\* extract.video_info_url(...) and extract.js_url(watch_html): URLs derived from the page
video_info_url(html) == "https://www.youtube.com/get_video_info?video_id=id"
js_url(html) == "https://www.youtube.com/yts/jsbin/base.js"

\* the dict without keys, {}; a dict parsed from a payload holds the payload's
\* other parameters (other) besides its manifests
EmptyDict ==
    [t |-> "map", other |-> FALSE,
     url_encoded_fmt_stream_map |-> Absent, adaptive_fmts |-> Absent]

\* compat.parse_qsl(qs) collected into a dict (line 95). A payload string
\* parses to a flat mapping. None and {} are falsy: Python 3's parse_qsl
\* coerces them to '' and returns no pairs (lenient), Python 2's calls
\* qs.split and raises. A non-empty dict has neither decode nor split and
\* raises on both.
parse_qsl(qs, lenient) ==
    CASE qs.t = "raw" ->
            [err |-> "ok", v |-> [t |-> "map", other |-> TRUE,
                url_encoded_fmt_stream_map |-> qs.url_encoded_fmt_stream_map,
                adaptive_fmts |-> qs.adaptive_fmts]]
      [] (qs.t = "None" \/ qs = EmptyDict) /\ lenient -> [err |-> "ok", v |-> EmptyDict]
      [] OTHER -> [err |-> "AttributeError", v |-> qs]

\* extract.get_ytplayer_config(watch_html): the embedded config, a fresh
\* object (identity id) at every call; fails when the marker is absent.
get_ytplayer_config(html, id) ==
    IF html.t = "html" /\ html.marker
    THEN [err |-> "ok", v |-> [t |-> "config", id |-> id, args |-> html.args]]
    ELSE [err |-> IF html.t = "html" THEN "ConfigExtractionError" ELSE "TypeError",
          v |-> None]

\* percent-decoding of one variant of a manifest string
Unquote(e) == [e EXCEPT !.encoded = FALSE]

\* mixins.apply_descrambler(stream_data, key): the manifest string under key
\* becomes the ordered list of its decoded entries; an absent key or an empty
\* string gives the empty list.
apply_descrambler(stream_data, key) ==
    LET m == stream_data[key] IN
    CASE m.t = "absent" -> [err |-> "ok", v |-> [stream_data EXCEPT ![key] = List(<<>>)]]
      [] m.t = "str" /\ m.ok ->
            [err |-> "ok", v |-> [stream_data EXCEPT
                ![key] = List([i \in 1..Len(m.v) |-> Unquote(m.v[i])])]]
      [] m.t = "str" /\ ~m.ok -> [err |-> "ManifestParseError", v |-> stream_data]
      [] OTHER -> [err |-> "AttributeError", v |-> stream_data]

\* the transform derived from the script text: reverse the access token
Reverse(tok) == [i \in 1..Len(tok) |-> tok[Len(tok) + 1 - i]]
TransformApply(e) == [e EXCEPT !.signature = Reverse(e.s)]

\* mixins.apply_signature(config_args, fmt, js): derives the transform from
\* the script text, then signs every entry of the descrambled manifest.
apply_signature(config_args, fmt, js) ==
    LET m == config_args[fmt] IN
    CASE js.t # "js" \/ ~js.entry -> [err |-> "SignatureResolutionError", v |-> config_args]
      [] m.t = "list" ->
            [err |-> "ok", v |-> [config_args EXCEPT
                ![fmt] = List([i \in 1..Len(m.v) |-> TransformApply(m.v[i])])]]
      [] m.t = "absent" -> [err |-> "KeyError", v |-> config_args]
      [] OTHER -> [err |-> "TypeError", v |-> config_args]

\* helpers.apply_mixin(config_args, 'player_response', json.loads)
apply_mixin(config_args) ==
    [err |-> "ok", v |-> [config_args EXCEPT !.player_response = "object"]]

\* Stream(stream=..., player_config=..., monostate=...): the descriptor keeps
\* its entry and references to the config object and to the monostate.
Stream(stream, player_config, monostate) ==
    [stream |-> stream, player_config |-> player_config.id, monostate |-> monostate]

\* StreamQuery(fmt_streams): a new collection object over a copy of the list
StreamQuery(fmt_streams, id) == [t |-> "StreamQuery", id |-> id, fmt_streams |-> fmt_streams]

----------------------------------------------------------------------------
(* class YouTube *)

\* the attributes a YouTube object has: those __init__ assigns (lines 49-75)
Attributes ==
    {"js", "js_url", "vid_info", "vid_info_url", "watch_html", "player_config",
     "fmt_streams", "video_id", "watch_url", "stream_monostate"}

\* the object before its constructor has run
Unborn ==
    [state |-> "unborn", js |-> None, js_url |-> "None", vid_info |-> None,
     vid_info_url |-> "None", watch_html |-> None, player_config |-> None,
     fmt_streams |-> <<>>, video_id |-> "None", watch_url |-> "None",
     stream_monostate |-> 0]

\* the result of a call: the object, the error raised ("ok": none) and the
\* stages the call started, in order
Frame(self) == [self |-> self, err |-> "ok", trace |-> <<>>]

\* one stage of init(): the collaborator called, the mapping it works on and
\* the manifest key
Stage(op, on, fmt) == [op |-> op, on |-> on, fmt |-> fmt]

\* init() with the descriptors built before the signatures are applied
InitStagesBuildFirst ==
    << Stage("parse_qsl", "vid_info", "-"),
       Stage("get_ytplayer_config", "config", "-"),
       Stage("apply_descrambler", "vid_info", progressive_fmts),
       Stage("apply_descrambler", "vid_info", adaptive_fmts),
       Stage("apply_descrambler", "config", progressive_fmts),
       Stage("apply_descrambler", "config", adaptive_fmts),
       Stage("initialize_stream_objects", "config", progressive_fmts),
       Stage("initialize_stream_objects", "config", adaptive_fmts),
       Stage("apply_signature", "config", progressive_fmts),
       Stage("apply_signature", "config", adaptive_fmts),
       Stage("apply_mixin", "config", "player_response") >>

\* init() with the config extracted after the metadata manifests are descrambled
InitStagesConfigLate ==
    << Stage("parse_qsl", "vid_info", "-"),
       Stage("apply_descrambler", "vid_info", progressive_fmts),
       Stage("apply_descrambler", "vid_info", adaptive_fmts),
       Stage("get_ytplayer_config", "config", "-"),
       Stage("apply_descrambler", "config", progressive_fmts),
       Stage("apply_descrambler", "config", adaptive_fmts),
       Stage("apply_signature", "config", progressive_fmts),
       Stage("apply_signature", "config", adaptive_fmts),
       Stage("apply_mixin", "config", "player_response"),
       Stage("initialize_stream_objects", "config", progressive_fmts),
       Stage("initialize_stream_objects", "config", adaptive_fmts) >>

\* init() with the adaptive descriptors built before the progressive ones
InitStagesAdaptiveFirst ==
    << Stage("parse_qsl", "vid_info", "-"),
       Stage("get_ytplayer_config", "config", "-"),
       Stage("apply_descrambler", "vid_info", progressive_fmts),
       Stage("apply_descrambler", "vid_info", adaptive_fmts),
       Stage("apply_descrambler", "config", progressive_fmts),
       Stage("apply_descrambler", "config", adaptive_fmts),
       Stage("apply_signature", "config", progressive_fmts),
       Stage("apply_signature", "config", adaptive_fmts),
       Stage("apply_mixin", "config", "player_response"),
       Stage("initialize_stream_objects", "config", adaptive_fmts),
       Stage("initialize_stream_objects", "config", progressive_fmts) >>

\* init() with the progressive signature applied before the adaptive manifest
\* of the config is descrambled
InitStagesSignEarly ==
    << Stage("parse_qsl", "vid_info", "-"),
       Stage("get_ytplayer_config", "config", "-"),
       Stage("apply_descrambler", "vid_info", progressive_fmts),
       Stage("apply_descrambler", "vid_info", adaptive_fmts),
       Stage("apply_descrambler", "config", progressive_fmts),
       Stage("apply_signature", "config", progressive_fmts),
       Stage("apply_descrambler", "config", adaptive_fmts),
       Stage("apply_signature", "config", adaptive_fmts),
       Stage("apply_mixin", "config", "player_response"),
       Stage("initialize_stream_objects", "config", progressive_fmts),
       Stage("initialize_stream_objects", "config", adaptive_fmts) >>

\* init() that also applies the signature to the manifests of the metadata
InitStagesSignMetadata ==
    << Stage("parse_qsl", "vid_info", "-"),
       Stage("get_ytplayer_config", "config", "-"),
       Stage("apply_descrambler", "vid_info", progressive_fmts),
       Stage("apply_descrambler", "vid_info", adaptive_fmts),
       Stage("apply_descrambler", "config", progressive_fmts),
       Stage("apply_descrambler", "config", adaptive_fmts),
       Stage("apply_signature", "vid_info", progressive_fmts),
       Stage("apply_signature", "vid_info", adaptive_fmts),
       Stage("apply_signature", "config", progressive_fmts),
       Stage("apply_signature", "config", adaptive_fmts),
       Stage("apply_mixin", "config", "player_response"),
       Stage("initialize_stream_objects", "config", progressive_fmts),
       Stage("initialize_stream_objects", "config", adaptive_fmts) >>

\* the stages of init() (lines 95-117), in program order
InitStages ==
    << Stage("parse_qsl", "vid_info", "-"),
       Stage("get_ytplayer_config", "config", "-"),
       Stage("apply_descrambler", "vid_info", progressive_fmts),
       Stage("apply_descrambler", "vid_info", adaptive_fmts),
       Stage("apply_descrambler", "config", progressive_fmts),
       Stage("apply_descrambler", "config", adaptive_fmts),
       Stage("apply_signature", "config", progressive_fmts),
       Stage("apply_signature", "config", adaptive_fmts),
       Stage("apply_mixin", "config", "player_response"),
       Stage("initialize_stream_objects", "config", progressive_fmts),
       Stage("initialize_stream_objects", "config", adaptive_fmts) >>

\* initialize_stream_objects(fmt) that hands every Stream its own copy of the
\* monostate dictionary (a dictionary with another reference)
initialize_stream_objects_copy(self, fmt) ==
    IF self.player_config.t # "config"
    THEN [err |-> "TypeError", v |-> self]
    ELSE LET stream_manifest == self.player_config.args[fmt] IN
         CASE stream_manifest.t = "absent" -> [err |-> "KeyError", v |-> self]
           [] stream_manifest = Str(<<>>) -> [err |-> "ok", v |-> self]
           [] stream_manifest.t = "str" /\ stream_manifest # Str(<<>>) ->
                [err |-> "TypeError", v |-> self]
           [] OTHER ->
                [err |-> "ok", v |-> [self EXCEPT !.fmt_streams = @ \o
                    [i \in 1..Len(stream_manifest.v) |->
                        Stream(stream_manifest.v[i], self.player_config,
                               self.stream_monostate + Cardinality(Sessions))]]]

\* initialize_stream_objects(fmt), lines 140-159: one Stream per entry of the
\* config's manifest under fmt, appended to fmt_streams in manifest order.
\* Without a config the subscript of None raises, without the key the lookup
\* does. A manifest still a string is iterated by character: the loop over
\* '' runs zero times, a character is not an entry a Stream can be built of.
initialize_stream_objects(self, fmt) ==
    IF self.player_config.t # "config"
    THEN [err |-> "TypeError", v |-> self]
    ELSE LET stream_manifest == self.player_config.args[fmt] IN
         CASE stream_manifest.t = "absent" -> [err |-> "KeyError", v |-> self]
           [] stream_manifest = Str(<<>>) -> [err |-> "ok", v |-> self]
           [] stream_manifest.t = "str" /\ stream_manifest # Str(<<>>) ->
                [err |-> "TypeError", v |-> self]
           [] OTHER ->
                [err |-> "ok", v |-> [self EXCEPT !.fmt_streams = @ \o
                    [i \in 1..Len(stream_manifest.v) |->
                        Stream(stream_manifest.v[i], self.player_config,
                               self.stream_monostate)]]]

\* One stage of init() on the object. Dictionaries are transformed in place:
\* a stage that raises leaves what it had not yet assigned.
RunStage(st, self, id, lenient) ==
    CASE st.op = "parse_qsl" ->
            LET r == parse_qsl(self.vid_info, lenient)
            IN  [err |-> r.err, v |-> [self EXCEPT !.vid_info = r.v]]
      [] st.op = "get_ytplayer_config" ->
            LET r == get_ytplayer_config(self.watch_html, id)
            IN  [err |-> r.err,
                 v |-> IF r.err = "ok" THEN [self EXCEPT !.player_config = r.v] ELSE self]
      [] st.op \in {"apply_descrambler", "apply_signature"} /\ st.on = "vid_info" ->
            IF self.vid_info.t # "map"
            THEN [err |-> "TypeError", v |-> self]
            ELSE LET r == IF st.op = "apply_descrambler"
                          THEN apply_descrambler(self.vid_info, st.fmt)
                          ELSE apply_signature(self.vid_info, st.fmt, self.js)
                 IN  [err |-> r.err, v |-> [self EXCEPT !.vid_info = r.v]]
      [] st.op \in {"apply_descrambler", "apply_signature", "apply_mixin"} ->
            IF self.player_config.t # "config"
            THEN [err |-> "TypeError", v |-> self]
            ELSE LET config_args == self.player_config.args
                     r == CASE st.op = "apply_descrambler" ->
                                    apply_descrambler(config_args, st.fmt)
                            [] st.op = "apply_signature" ->
                                    apply_signature(config_args, st.fmt, self.js)
                            [] OTHER -> apply_mixin(config_args)
                 IN  [err |-> r.err, v |-> [self EXCEPT !.player_config.args = r.v]]
      [] OTHER -> initialize_stream_objects(self, st.fmt)

\* the stages run in order; the first error ends the call
RECURSIVE RunStages(_, _, _, _)
RunStages(stages, f, id, lenient) ==
    IF stages = <<>> \/ f.err # "ok"
    THEN f
    ELSE LET r == RunStage(Head(stages), f.self, id, lenient)
         IN  RunStages(Tail(stages),
                       [self |-> r.v, err |-> r.err, trace |-> Append(f.trace, Head(stages))],
                       id, lenient)

\* init() with its body inside a try/except that discards the exception
init_suppressed(self, id, lenient) ==
    [RunStages(InitStages, Frame(self), id, lenient) EXCEPT !.err = "ok"]

\* init(), lines 85-118. id names the config object this call creates.
init(self, id, lenient) == RunStages(InitStages, Frame(self), id, lenient)

\* request.get(url=...) and request.get(urls=[...]): a body, or all bodies in
\* the order of the urls, or FetchError with nothing returned
GetPage == Stage("request.get", "watch_url", "-")
GetBatch == Stage("request.get", "js_url,vid_info_url", "-")

\* prefetch() that fetches the script and the metadata with two single
\* requests and assigns js before the second one fails
prefetch_one_by_one(self, r, outcome) ==
    IF outcome = "page_fails" \/ self.watch_url = "None"
    THEN [self |-> self, err |-> "FetchError", trace |-> <<GetPage>>]
    ELSE LET s1 == [self EXCEPT !.watch_html = r.html,
                                !.vid_info_url = video_info_url(r.html),
                                !.js_url = js_url(r.html)]
         IN  IF outcome = "batch_fails"
             THEN [self |-> [s1 EXCEPT !.js = r.js], err |-> "FetchError",
                   trace |-> <<GetPage, GetBatch>>]
             ELSE [self |-> [s1 EXCEPT !.js = r.js, !.vid_info = r.info],
                   err |-> "ok",
                   trace |-> <<GetPage, GetBatch>>]

\* prefetch(), lines 120-138
prefetch(self, r, outcome) ==
    IF outcome = "page_fails" \/ self.watch_url = "None"
    THEN [self |-> self, err |-> "FetchError", trace |-> <<GetPage>>]
    ELSE LET s1 == [self EXCEPT !.watch_html = r.html,
                                !.vid_info_url = video_info_url(r.html),
                                !.js_url = js_url(r.html)]
         IN  IF outcome = "batch_fails"
             THEN [self |-> s1, err |-> "FetchError",
                   trace |-> <<GetPage, GetBatch>>]
             ELSE [self |-> [s1 EXCEPT !.js = r.js, !.vid_info = r.info],
                   err |-> "ok",
                   trace |-> <<GetPage, GetBatch>>]

\* the `streams` property body, lines 163-165: a new StreamQuery over a copy
\* of fmt_streams
streams(self, id) ==
    StreamQuery([i \in 1..Len(self.fmt_streams) |-> self.fmt_streams[i]], id)

StreamsBody == Stage("streams", "fmt_streams", "-")

\* helpers.memoize: the wrapped function runs when its cache holds no result
\* for the object; the result is stored and returned from then on.
NoCache == [stored |-> FALSE, value |-> None, builds |-> 0]
memoize(c, self) ==
    IF c.stored
    THEN c
    ELSE [stored |-> TRUE, builds |-> c.builds + 1, value |-> streams(self, c.builds + 1)]

\* the property without @memoize: the body runs at every access
streams_unmemoized(c, self) ==
    [stored |-> FALSE, builds |-> c.builds + 1, value |-> streams(self, c.builds + 1)]

\* the decorated property, lines 161-165: @property @memoize def streams
streams_property(c, self) == memoize(c, self)

\* the record kept of one prefetch(), init() or initialize_stream_objects()
\* call: the method, its caller (the constructor or the user), the error
\* raised and the stages started
Call(op, by, f) == [op |-> op, by |-> by, err |-> f.err, trace |-> f.trace]
NoCall == [op |-> "-", by |-> "-", err |-> "ok", trace |-> <<>>]
NoCalls == [prefetch |-> 0, init |-> 0, user |-> 0]

\* prefetch_init() that returns after prefetch(), without init()
prefetch_only(self, r, outcome, id, lenient) ==
    LET p == prefetch(self, r, outcome)
    IN  [self |-> p.self, err |-> p.err, trace |-> p.trace,
         calls |-> [NoCalls EXCEPT !.prefetch = 1], last |-> Call("prefetch", "__init__", p)]

\* prefetch_init(), lines 80-83
prefetch_init(self, r, outcome, id, lenient) ==
    LET p == prefetch(self, r, outcome) IN
    IF p.err # "ok"
    THEN [self |-> p.self, err |-> p.err, trace |-> p.trace,
          calls |-> [NoCalls EXCEPT !.prefetch = 1], last |-> Call("prefetch", "__init__", p)]
    ELSE LET i == init(p.self, id, lenient)
         IN  [self |-> i.self, err |-> i.err, trace |-> p.trace \o i.trace,
              calls |-> [NoCalls EXCEPT !.prefetch = 1, !.init = 1], last |-> Call("init", "__init__", i)]

\* __init__, lines 31-78. ref is the reference of the monostate dictionary
\* the constructor creates.
YouTube(url, defer_prefetch_init, ref, r, outcome, lenient) ==
    LET self == [Unborn EXCEPT !.state = "live",
                               !.video_id = video_id(url),
                               !.watch_url = watch_url(video_id(url)),
                               !.stream_monostate = ref]
    IN  IF url # "None" /\ ~defer_prefetch_init
        THEN LET f == prefetch_init(self, r, outcome, 1, lenient)
             IN  [f EXCEPT !.self.state = IF f.err = "ok" THEN "live" ELSE "raised"]
        ELSE [self |-> self, err |-> "ok", trace |-> <<>>, calls |-> NoCalls, last |-> NoCall]

\* register_on_progress_callback(func), lines 167-174, and
\* register_on_complete_callback(func), lines 176-182: the slot of the
\* dictionary the attribute `_monostate` refers to is assigned.
register_on_progress_callback(self, h, func) ==
    IF "_monostate" \notin Attributes
    THEN [err |-> "AttributeError", heap |-> h]
    ELSE [err |-> "ok", heap |-> [h EXCEPT ![self["_monostate"]].on_progress = func]]

register_on_complete_callback(self, h, func) ==
    IF "_monostate" \notin Attributes
    THEN [err |-> "AttributeError", heap |-> h]
    ELSE [err |-> "ok", heap |-> [h EXCEPT ![self["_monostate"]].on_complete = func]]

----------------------------------------------------------------------------
(* The state machine *)

\* what the transport may return
Served == IF plan.web = Unpinned THEN Responses ELSE {plan.web}
\* the bodies a fetch that fails does not return are left out of the choice
ServedWhen(outcome) ==
    LET any == CHOOSE r \in Served : TRUE IN
    CASE outcome = "ok" -> Served
      [] outcome = "batch_fails" -> {[r EXCEPT !.js = any.js, !.info = any.info] : r \in Served}
      [] OTHER -> {any}

NoOut == [self |-> "-", op |-> "-", err |-> "ok", trace |-> <<>>, arg |-> "-", value |-> None]

Scenario(p) ==
    /\ yt = [s \in Sessions |-> Unborn]
    /\ heap = <<>>
    /\ cache = [s \in Sessions |-> NoCache]
    /\ out = NoOut
    /\ calls = [s \in Sessions |-> NoCalls]
    /\ last = [s \in Sessions |-> NoCall]
    /\ seen = [s \in Sessions |-> None]
    /\ plan = p

\* one session, any content at every fetch
Init ==
    Scenario([sessions |-> {"A"}, calls |-> MaxCalls, web |-> Unpinned,
              urls |-> Urls, callbacks |-> {<<"f", "g">>}])

\* the content served to a pair of sessions: a page with both manifests or a
\* page with a malformed manifest, and a script with a recognizable entry point
PairResponses ==
    {r \in Responses :
        /\ r.info = Payload(Str(<<RawEntry(progressive_fmts, 1)>>), Absent)
        /\ r.js.entry
        /\ r.html.marker
        /\ r.html.args[progressive_fmts] =
              Str(<<RawEntry(progressive_fmts, 1), RawEntry(progressive_fmts, 2)>>)
        /\ r.html.args[adaptive_fmts] \in {Malformed, Str(<<RawEntry(adaptive_fmts, 3)>>)}}

\* two sessions, each with its share of the calls, that are served the same
\* content
InitPair ==
    \E w \in PairResponses :
        Scenario([sessions |-> Sessions, calls |-> (MaxCalls + 2) \div 2, web |-> w,
                  urls |-> Urls \ {"None"}, callbacks |-> {<<"f", "g">>}])

\* y = YouTube(url, defer_prefetch_init, on_progress_callback, on_complete_callback)
Construct(s) ==
    /\ s \in plan.sessions
    /\ yt[s].state = "unborn"
    /\ \E url \in plan.urls, defer \in BOOLEAN, cb \in plan.callbacks,
          outcome \in FetchOutcomes, lenient \in BOOLEAN :
       \E r \in ServedWhen(outcome) :
          LET ref == Len(heap) + 1
              f == YouTube(url, defer, ref, r, outcome, lenient)
          IN  /\ yt' = [yt EXCEPT ![s] = f.self]
              /\ heap' = Append(heap, [on_progress |-> cb[1], on_complete |-> cb[2]])
              /\ calls' = [calls EXCEPT ![s] = f.calls]
              /\ last' = [last EXCEPT ![s] = f.last]
              /\ out' = [self |-> s, op |-> "__init__", err |-> f.err, trace |-> f.trace,
                         arg |-> IF defer THEN "defer" ELSE "eager", value |-> None]
    /\ UNCHANGED <<cache, seen, plan>>

\* y.prefetch()
Prefetch(s) ==
    /\ yt[s].state = "live"
    /\ calls[s].user < plan.calls
    /\ \E outcome \in FetchOutcomes : \E r \in ServedWhen(outcome) :
          LET f == prefetch(yt[s], r, outcome)
          IN  /\ yt' = [yt EXCEPT ![s] = f.self]
              /\ calls' = [calls EXCEPT ![s].prefetch = @ + 1, ![s].user = @ + 1]
              /\ last' = [last EXCEPT ![s] = Call("prefetch", "user", f)]
              /\ out' = [self |-> s, op |-> "prefetch", err |-> f.err, trace |-> f.trace,
                         arg |-> "-", value |-> None]
    /\ UNCHANGED <<heap, cache, seen, plan>>

\* y.init()
InitCall(s) ==
    /\ yt[s].state = "live"
    /\ calls[s].user < plan.calls
    /\ \E lenient \in BOOLEAN :
          LET f == init(yt[s], calls[s].init + 1, lenient)
          IN  /\ yt' = [yt EXCEPT ![s] = f.self]
              /\ calls' = [calls EXCEPT ![s].init = @ + 1, ![s].user = @ + 1]
              /\ last' = [last EXCEPT ![s] = Call("init", "user", f)]
              /\ out' = [self |-> s, op |-> "init", err |-> f.err, trace |-> f.trace,
                         arg |-> "-", value |-> None]
    /\ UNCHANGED <<heap, cache, seen, plan>>

\* y.prefetch_init(): the room for its two calls is needed
PrefetchInit(s) ==
    /\ yt[s].state = "live"
    /\ calls[s].user + 1 < plan.calls
    /\ \E outcome \in FetchOutcomes, lenient \in BOOLEAN :
       \E r \in ServedWhen(outcome) :
          LET f == prefetch_init(yt[s], r, outcome, calls[s].init + 1, lenient)
          IN  /\ yt' = [yt EXCEPT ![s] = f.self]
              /\ calls' = [calls EXCEPT ![s].prefetch = @ + f.calls.prefetch,
                                        ![s].init = @ + f.calls.init,
                                        ![s].user = @ + f.calls.prefetch + f.calls.init]
              /\ last' = [last EXCEPT ![s] = [f.last EXCEPT !.by = "user"]]
              /\ out' = [self |-> s, op |-> "prefetch_init", err |-> f.err,
                         trace |-> f.trace, arg |-> "-", value |-> None]
    /\ UNCHANGED <<heap, cache, seen, plan>>

\* y.initialize_stream_objects(fmt)
InitializeStreamObjects(s) ==
    /\ yt[s].state = "live"
    /\ calls[s].user < plan.calls
    /\ \E fmt \in Fmts :
          LET r == initialize_stream_objects(yt[s], fmt)
              f == [err |-> r.err,
                    trace |-> <<Stage("initialize_stream_objects", "config", fmt)>>]
          IN  /\ yt' = [yt EXCEPT ![s] = r.v]
              /\ calls' = [calls EXCEPT ![s].user = @ + 1]
              /\ last' = [last EXCEPT ![s] = Call("initialize_stream_objects", "user", f)]
              /\ out' = [self |-> s, op |-> "initialize_stream_objects", err |-> f.err,
                         trace |-> f.trace, arg |-> fmt, value |-> None]
    /\ UNCHANGED <<heap, cache, seen, plan>>

\* y.streams with a body that hands its list over to the collection and
\* leaves the session with an empty one
StreamsAccessDraining(s) ==
    /\ yt[s].state = "live"
    /\ cache' = [cache EXCEPT ![s] = streams_property(@, yt[s])]
    /\ out' = [self |-> s, op |-> "streams", err |-> "ok",
               trace |-> IF cache'[s].builds > cache[s].builds THEN <<StreamsBody>> ELSE <<>>,
               arg |-> "-", value |-> cache'[s].value]
    /\ seen' = [seen EXCEPT ![s] = cache'[s].value]
    /\ yt' = [yt EXCEPT ![s].fmt_streams = <<>>]
    /\ UNCHANGED <<heap, calls, last, plan>>

\* y.streams
StreamsAccess(s) ==
    /\ yt[s].state = "live"
    /\ cache' = [cache EXCEPT ![s] = streams_property(@, yt[s])]
    /\ out' = [self |-> s, op |-> "streams", err |-> "ok",
               trace |-> IF cache'[s].builds > cache[s].builds THEN <<StreamsBody>> ELSE <<>>,
               arg |-> "-", value |-> cache'[s].value]
    /\ seen' = [seen EXCEPT ![s] = cache'[s].value]
    /\ UNCHANGED <<yt, heap, calls, last, plan>>

\* y.register_on_progress_callback(func)
RegisterProgress(s) ==
    /\ yt[s].state = "live"
    /\ \E func \in Registered :
          LET f == register_on_progress_callback(yt[s], heap, func)
          IN  /\ heap' = f.heap
              /\ out' = [self |-> s, op |-> "register_on_progress_callback",
                         err |-> f.err, trace |-> <<>>, arg |-> func, value |-> None]
    /\ UNCHANGED <<yt, cache, calls, last, seen, plan>>

\* y.register_on_complete_callback(func)
RegisterComplete(s) ==
    /\ yt[s].state = "live"
    /\ \E func \in Registered :
          LET f == register_on_complete_callback(yt[s], heap, func)
          IN  /\ heap' = f.heap
              /\ out' = [self |-> s, op |-> "register_on_complete_callback",
                         err |-> f.err, trace |-> <<>>, arg |-> func, value |-> None]
    /\ UNCHANGED <<yt, cache, calls, last, seen, plan>>

Next ==
    \E s \in Sessions :
        \/ Construct(s)
        \/ Prefetch(s)
        \/ InitCall(s)
        \/ PrefetchInit(s)
        \/ InitializeStreamObjects(s)
        \/ StreamsAccess(s)
        \/ RegisterProgress(s)
        \/ RegisterComplete(s)

Spec == Init /\ [][Next]_vars
SpecPair == InitPair /\ [][Next]_vars

----------------------------------------------------------------------------
(* Vocabulary of the properties *)

Live == {s \in Sessions : yt[s].state = "live"}

\* the manifest entries the descriptors of a list were built from, in order
Entries(fmt_streams) == [i \in 1..Len(fmt_streams) |-> fmt_streams[i].stream]

\* the steps of init() that work on a manifest
ManifestWork == {"apply_descrambler", "apply_signature", "initialize_stream_objects"}
Started(trace, ops) == \E i \in 1..Len(trace) : trace[i].op \in ops

\* the descriptors of s built from config object id, the one the id-th init()
\* of s extracted; while that init() is the last call on s, they are the
\* descriptors it built
BuiltBy(s, id) ==
    {i \in 1..Len(yt[s].fmt_streams) : yt[s].fmt_streams[i].player_config = id}

\* the entries of the descriptors the last init() of s added to fmt_streams
Added(s) ==
    LET n == Cardinality(BuiltBy(s, calls[s].init))
        all == Entries(yt[s].fmt_streams)
    IN  SubSeq(all, Len(all) - n + 1, Len(all))

\* prefetch() has completed on s: page, script and metadata were all fetched
Prefetched(s) == yt[s].watch_html # None /\ yt[s].js # None

Registrations == {"register_on_progress_callback", "register_on_complete_callback"}
Slot(op) == IF op = "register_on_progress_callback" THEN "on_progress" ELSE "on_complete"

----------------------------------------------------------------------------
(* C1 *)

\* C1: once descriptors are built and `streams` has been accessed, a call of
\* register_on_progress_callback(f) or register_on_complete_callback(f)
\* completes normally and f is the value of the slot in the monostate of
\* every descriptor of the session.
C1_RegistrationVisible ==
    (/\ out.op \in Registrations
     /\ yt[out.self].fmt_streams # <<>>
     /\ cache[out.self].stored)
    => /\ out.err = "ok"
       /\ \A i \in 1..Len(yt[out.self].fmt_streams) :
            heap[yt[out.self].fmt_streams[i].monostate][Slot(out.op)] = out.arg

----------------------------------------------------------------------------
(* C2 *)

\* C2: a second init() with no prefetch() since the first, successful one
\* completes without error and leaves a descriptor list with the entries of
\* the first, in the same order.
C2_SecondInitReplaces ==
    [][\A s \in Sessions :
        (/\ last[s].op = "init" /\ last[s].err = "ok"
         /\ calls'[s].init = calls[s].init + 1
         /\ calls'[s].prefetch = calls[s].prefetch)
        => /\ last'[s].err = "ok"
           /\ Entries(yt'[s].fmt_streams) = Entries(yt[s].fmt_streams)]_vars

----------------------------------------------------------------------------
(* C3 *)

\* C3: an access of `streams` that follows an earlier access returns the
\* collection the earlier access returned, the same object with the same
\* descriptors, and does not run the property body again.
C3_StreamsMemoized ==
    [][\A s \in Sessions :
        (out'.op = "streams" /\ out'.self = s /\ seen[s] # None)
        => /\ out'.value = seen[s]
           /\ out'.trace = <<>>
           /\ cache'[s].builds = cache[s].builds]_vars

\* a repeated access, with no init() since the first one, has returned the
\* collection of the descriptors the session's only init() built
C3_Witness ==
    /\ out.op = "streams"
    /\ out.trace = <<>>
    /\ calls[out.self].init = 1
    /\ Len(out.value.fmt_streams) >= 2
    /\ out.value.fmt_streams = yt[out.self].fmt_streams

----------------------------------------------------------------------------
(* C4 *)

\* C4: init() starts no descrambling, signature or descriptor-building step on
\* a session whose prefetch() has not completed.
C4_NoManifestWorkBeforePrefetch ==
    \A s \in Sessions :
        (last[s].op = "init" /\ Started(last[s].trace, ManifestWork))
        => Prefetched(s)

----------------------------------------------------------------------------
(* C5 *)

\* C5: an init() that fails with SignatureResolutionError leaves no
\* descriptor of its own in fmt_streams and the error reaches the caller;
\* in every init(), both signature applications have been started before the
\* first initialize_stream_objects.
C5_SignatureBeforeDescriptors ==
    \A s \in Sessions :
        last[s].op = "init" =>
            /\ last[s].err = "SignatureResolutionError" =>
                    /\ BuiltBy(s, calls[s].init) = {}
                    /\ (out.self = s /\ out.op \in {"init", "prefetch_init", "__init__"}) =>
                            out.err = last[s].err
            /\ \A i \in 1..Len(last[s].trace) :
                    last[s].trace[i].op = "initialize_stream_objects" =>
                        \A fmt \in Fmts : \E j \in 1..(i - 1) :
                            last[s].trace[j] = Stage("apply_signature", "config", fmt)

\* init() has failed at the signature step on a config whose descrambled
\* progressive manifest has entries to build descriptors from
C5_Witness ==
    \E s \in Sessions :
        /\ last[s].op = "init" /\ last[s].err = "SignatureResolutionError"
        /\ out.self = s /\ out.op = "init"
        /\ yt[s].player_config.id = calls[s].init
        /\ Len(yt[s].player_config.args[progressive_fmts].v) = 2

----------------------------------------------------------------------------
(* C6 *)

\* C6: when init() fails with ConfigExtractionError it has started no
\* descrambling, signature or descriptor step: the manifests of the metadata
\* mapping are not descrambled, no config object of this call exists and no
\* descriptor of this call is in fmt_streams.
C6_ConfigFailureBeforeManifestWork ==
    \A s \in Sessions :
        (last[s].op = "init" /\ last[s].err = "ConfigExtractionError") =>
            /\ ~Started(last[s].trace, ManifestWork)
            /\ \A fmt \in Fmts : yt[s].vid_info[fmt].t # "list"
            /\ yt[s].player_config.t = "config" => yt[s].player_config.id # calls[s].init
            /\ BuiltBy(s, calls[s].init) = {}

\* init() has failed at config extraction while the metadata mapping holds a
\* manifest string it would have descrambled
C6_Witness ==
    \E s \in Sessions :
        /\ last[s].op = "init" /\ last[s].err = "ConfigExtractionError"
        /\ yt[s].vid_info.t = "map"
        /\ yt[s].vid_info[progressive_fmts].t = "str"
        /\ Len(yt[s].vid_info[progressive_fmts].v) = 1

----------------------------------------------------------------------------
(* C7 *)

EmptyOrAbsent(m) == m.t = "absent" \/ (m.t \in {"str", "list"} /\ m.ok /\ m.v = <<>>)

\* C7: when the page's config and the metadata carry only empty or absent
\* manifests (and the script yields a transform), init() completes without
\* error and the session has no descriptor.
C7_EmptyManifestsEmptyCollection ==
    \A s \in Sessions :
        (/\ last[s].op = "init"
         /\ yt[s].watch_html.t = "html" /\ yt[s].watch_html.marker
         /\ yt[s].js.t = "js" /\ yt[s].js.entry
         /\ yt[s].vid_info.t = "map"
         /\ \A fmt \in Fmts :
                /\ EmptyOrAbsent(yt[s].watch_html.args[fmt])
                /\ EmptyOrAbsent(yt[s].vid_info[fmt]))
        => /\ last[s].err = "ok"
           /\ yt[s].fmt_streams = <<>>

----------------------------------------------------------------------------
(* C8 *)

\* C8: after the first init() of a session, if it succeeded, fmt_streams
\* holds one descriptor per entry of the page's progressive manifest followed
\* by one per entry of its adaptive manifest, each category in manifest order,
\* built from the descrambled and signed entries of the config.
C8_OneDescriptorPerEntryInOrder ==
    \A s \in Sessions :
        (last[s].op = "init" /\ last[s].err = "ok" /\ calls[s].init = 1) =>
            LET raw == yt[s].watch_html.args[progressive_fmts].v \o
                       yt[s].watch_html.args[adaptive_fmts].v
                built == yt[s].player_config.args[progressive_fmts].v \o
                         yt[s].player_config.args[adaptive_fmts].v
                got == Entries(yt[s].fmt_streams)
            IN  /\ got = built
                /\ Len(got) = Len(raw)
                /\ \A i \in 1..Len(got) :
                        /\ got[i].itag = raw[i].itag /\ got[i].kind = raw[i].kind
                        /\ ~got[i].encoded /\ got[i].signature = Reverse(raw[i].s)

\* a first init() has built two progressive descriptors and one adaptive
C8_Witness ==
    \E s \in Sessions :
        /\ last[s].op = "init" /\ last[s].err = "ok" /\ calls[s].init = 1
        /\ Len(yt[s].fmt_streams) = 3
        /\ yt[s].fmt_streams[3].stream.kind = adaptive_fmts

----------------------------------------------------------------------------
(* C9 *)

\* the session was constructed eagerly and no prefetch() or init() was called
\* on it afterwards
Eager(s) == last[s].by = "__init__"

\* the session was constructed with a url and deferred, and then the sequence
\* prefetch(); init() was run on it: init() was called after prefetch()
\* returned, and not at all when prefetch() raised
Composed(t) ==
    /\ last[t].by = "user" /\ yt[t].video_id # "None"
    /\ \/ calls[t] = [prefetch |-> 1, init |-> 1, user |-> 2] /\ last[t].op = "init" /\ Prefetched(t)
       \/ calls[t] = [prefetch |-> 1, init |-> 0, user |-> 1] /\ last[t].err # "ok"

\* the transport answered both sessions alike
SameResponses(s, t) ==
    yt[s].watch_html = yt[t].watch_html /\ yt[s].js = yt[t].js

\* C9: for the same transport responses, an eagerly constructed session and
\* a deferred session on which prefetch() and then init() were called hold
\* the same artifacts, config object and descriptor entries, and their last
\* call failed with the same error after starting the same stages.
C9_EagerEqualsPrefetchThenInit ==
    \A s \in Sessions, t \in Sessions :
        (Eager(s) /\ Composed(t) /\ SameResponses(s, t)) =>
            /\ \A a \in Attributes \ {"stream_monostate", "fmt_streams"} : yt[s][a] = yt[t][a]
            /\ Entries(yt[s].fmt_streams) = Entries(yt[t].fmt_streams)
            /\ last[s].op = last[t].op
            /\ last[s].err = last[t].err
            /\ last[s].trace = last[t].trace

\* an eager session and a composed one have both built the three descriptors
C9_Witness ==
    \E s \in Sessions, t \in Sessions :
        /\ Eager(s) /\ Composed(t) /\ SameResponses(s, t)
        /\ last[t].op = "init" /\ last[t].err = "ok"
        /\ Len(yt[t].fmt_streams) = 3

----------------------------------------------------------------------------
(* C10 *)

\* the session was constructed with a url and defer_prefetch_init=True, and
\* prefetch() has not been called on it
Deferred(s) == yt[s].state = "live" /\ yt[s].video_id # "None" /\ calls[s].prefetch = 0

\* C10: a session constructed deferred has no artifact, no config object and
\* no descriptor, from the constructor's return until prefetch() is called.
C10_DeferredStaysUnfetched ==
    \A s \in Sessions :
        Deferred(s) =>
            /\ yt[s].watch_html = None /\ yt[s].js = None /\ yt[s].vid_info = None
            /\ yt[s].js_url = "None" /\ yt[s].vid_info_url = "None"
            /\ yt[s].player_config = None
            /\ yt[s].fmt_streams = <<>>

----------------------------------------------------------------------------
(* C11 *)

\* every stage of the last init() on s has completed: the metadata is parsed
\* and descrambled, the config of this call is extracted from a page that
\* embeds one, its manifests are descrambled and signed with a transform the
\* script yields, player_response is loaded and every entry has a descriptor
InitCompleted(s) ==
    /\ yt[s].vid_info.t = "map"
    /\ \A fmt \in Fmts : yt[s].vid_info[fmt].t = "list"
    /\ yt[s].watch_html.t = "html" /\ yt[s].watch_html.marker
    /\ yt[s].js.t = "js" /\ yt[s].js.entry
    /\ yt[s].player_config.t = "config" /\ yt[s].player_config.id = calls[s].init
    /\ yt[s].player_config.args.player_response = "object"
    /\ \A fmt \in Fmts :
          /\ yt[s].player_config.args[fmt].t = "list"
          /\ \A i \in 1..Len(yt[s].player_config.args[fmt].v) :
                LET e == yt[s].player_config.args[fmt].v[i]
                IN  ~e.encoded /\ e.signature = Reverse(e.s)
    /\ Cardinality(BuiltBy(s, calls[s].init)) =
          Len(yt[s].player_config.args[progressive_fmts].v) +
          Len(yt[s].player_config.args[adaptive_fmts].v)

\* the stage that raises each of the four errors of the taxonomy
RaisedBy(err) ==
    CASE err = "FetchError" -> {"request.get"}
      [] err = "ConfigExtractionError" -> {"get_ytplayer_config"}
      [] err = "ManifestParseError" -> {"apply_descrambler"}
      [] err = "SignatureResolutionError" -> {"apply_signature"}
      [] OTHER -> {"parse_qsl", "get_ytplayer_config", "apply_descrambler",
                   "apply_signature", "apply_mixin", "initialize_stream_objects"}

\* C11: a prefetch() or init() that returns normally has completed every
\* stage; one whose stage failed ends at that stage and the caller of
\* prefetch(), init() or the eager constructor receives the stage's error.
C11_StageErrorsPropagate ==
    \A s \in Sessions :
        /\ (last[s].op = "init" /\ last[s].err = "ok") =>
                last[s].trace = InitStages /\ InitCompleted(s)
        /\ (last[s].op = "prefetch" /\ last[s].err = "ok") =>
                /\ last[s].trace = <<GetPage, GetBatch>>
                /\ yt[s].watch_html.t = "html" /\ yt[s].js.t = "js" /\ yt[s].vid_info.t = "raw"
        /\ (last[s].op # "-" /\ last[s].err # "ok") =>
                /\ last[s].trace # <<>>
                /\ last[s].trace[Len(last[s].trace)].op \in RaisedBy(last[s].err)
        /\ (out.self = s /\ out.op \in {"init", "prefetch", "prefetch_init"}) =>
                out.err = last[s].err
        /\ (out.self = s /\ out.op = "__init__" /\ last[s].by = "__init__") =>
                /\ out.err = last[s].err
                /\ last[s].err # "ok" => yt[s].state = "raised"
                /\ last[s].op = "prefetch" => last[s].err = "FetchError" /\ calls[s].init = 0

\* init() has just raised ManifestParseError to its caller
C11_Witness ==
    /\ out.op = "init" /\ out.err = "ManifestParseError"
    /\ last[out.self].op = "init"
    /\ last[out.self].trace[Len(last[out.self].trace)].op = "apply_descrambler"

----------------------------------------------------------------------------
(* C12 *)

Constructed == {s \in Sessions : yt[s].state # "unborn"}

\* C12: every descriptor of a session refers to the monostate dictionary the
\* session's constructor created; on return from the constructor that
\* dictionary holds the callbacks passed to it; two sessions have different
\* monostate dictionaries.
C12_OneMonostatePerSession ==
    /\ \A s \in Constructed :
          /\ yt[s].stream_monostate \in 1..Len(heap)
          /\ \A i \in 1..Len(yt[s].fmt_streams) :
                yt[s].fmt_streams[i].monostate = yt[s].stream_monostate
    /\ \A s \in Constructed, t \in Constructed :
          s # t => yt[s].stream_monostate # yt[t].stream_monostate
    /\ out.op = "__init__" =>
          heap[yt[out.self].stream_monostate] \in
              {[on_progress |-> cb[1], on_complete |-> cb[2]] : cb \in plan.callbacks}

\* two sessions have both built the descriptors of both manifests
C12_Witness ==
    \A s \in Sessions :
        /\ Len(yt[s].fmt_streams) = 3
        /\ yt[s].fmt_streams[1].stream.kind = progressive_fmts
        /\ yt[s].fmt_streams[3].stream.kind = adaptive_fmts

----------------------------------------------------------------------------
(* C13 *)

\* the artifacts of an object are well formed: the page embeds a config, the
\* script yields a transform and no manifest string is malformed
WellFormed(self) ==
    /\ self.watch_html.t = "html" /\ self.watch_html.marker
    /\ self.js.t = "js" /\ self.js.entry
    /\ self.vid_info.t = "raw"
    /\ \A fmt \in Fmts : self.watch_html.args[fmt].ok /\ self.vid_info[fmt].ok

\* the entries init() derives from the manifests of a page, in order
Derived(html) ==
    LET raw == html.args[progressive_fmts].v \o html.args[adaptive_fmts].v
    IN  [i \in 1..Len(raw) |-> TransformApply(Unquote(raw[i]))]

\* C13: a prefetch() that is not the session's first and returns normally
\* leaves fetched values in all five artifacts, vid_info being a raw payload
\* again; the init() that follows it on well-formed content succeeds and
\* leaves in fmt_streams the descriptors of the newly fetched page only.
C13_SecondPrefetchOverwrites ==
    [][\A s \in Sessions :
          /\ (/\ calls[s].prefetch >= 1
              /\ calls'[s].prefetch = calls[s].prefetch + 1
              /\ last'[s].op = "prefetch" /\ last'[s].err = "ok")
             => /\ yt'[s].watch_html.t = "html"
                /\ yt'[s].js.t = "js" /\ yt'[s].vid_info.t = "raw"
                /\ yt'[s].js_url # "None" /\ yt'[s].vid_info_url # "None"
          /\ (/\ calls[s].prefetch >= 2
              /\ last[s].op = "prefetch" /\ last[s].err = "ok"
              /\ calls'[s].init = calls[s].init + 1
              /\ calls'[s].prefetch = calls[s].prefetch
              /\ WellFormed(yt[s]))
             => /\ last'[s].err = "ok"
                /\ Entries(yt'[s].fmt_streams) = Derived(yt[s].watch_html)]_vars

----------------------------------------------------------------------------
(* C14 *)

\* C14: an init() that fails on a prefetched session leaves the session as
\* it was before the call: the same descriptor list and the same artifacts.
C14_FailedInitChangesNothing ==
    [][\A s \in Sessions :
          (/\ yt[s].state = "live"
           /\ Prefetched(s) /\ yt[s].vid_info.t = "raw"
           /\ calls'[s].init = calls[s].init + 1
           /\ calls'[s].prefetch = calls[s].prefetch
           /\ last'[s].err # "ok")
          => /\ yt'[s].fmt_streams = yt[s].fmt_streams
             /\ \A a \in Attributes : yt'[s][a] = yt[s][a]]_vars

----------------------------------------------------------------------------
(* C15 *)

\* the stages of a trace started before position i
Before(trace, i) == {trace[j] : j \in 1..(i - 1)}

\* the four descrambling steps: both keys of the metadata and of the config
Descramblings ==
    {Stage("apply_descrambler", on, fmt) : on \in {"vid_info", "config"}, fmt \in Fmts}

\* C15: in every init(), all four descrambling steps are started before the
\* first signature application, and for each key the config manifest is
\* descrambled, then signed, then turned into descriptors; every descriptor
\* an init() adds is built from a descrambled and signed entry.
C15_DescrambleSignBuild ==
    \A s \in Sessions :
        /\ last[s].op = "init" =>
              \A i \in 1..Len(last[s].trace) :
                 LET st == last[s].trace[i]
                     before == Before(last[s].trace, i)
                 IN  /\ st.op = "apply_signature" =>
                            /\ Descramblings \subseteq before
                            /\ \A j \in (i + 1)..Len(last[s].trace) :
                                    last[s].trace[j].op # "apply_descrambler"
                     /\ st.op = "initialize_stream_objects" =>
                            /\ Stage("apply_descrambler", "config", st.fmt) \in before
                            /\ Stage("apply_signature", "config", st.fmt) \in before
        /\ last[s].op = "init" =>
              \A i \in 1..Len(Added(s)) :
                 LET e == Added(s)[i]
                 IN  ~e.encoded /\ e.signature = Reverse(e.s)

\* an init() has run all its stages and the first descriptor carries the
\* signature derived from its token
C15_Witness ==
    \E s \in Sessions :
        /\ last[s].op = "init" /\ last[s].trace = InitStages
        /\ Added(s) # <<>>
        /\ Added(s)[1].s = <<1, 2>>
        /\ Added(s)[1].signature = <<2, 1>>

----------------------------------------------------------------------------
(* C16 *)

\* the stages of a trace
StagesOf(trace) == {trace[i] : i \in 1..Len(trace)}

\* every entry of a descrambled manifest is decoded, and signed or unsigned
Decoded(m) == m.t = "list" /\ \A i \in 1..Len(m.v) : ~m.v[i].encoded
Signed(m) == m.t = "list" /\ \A i \in 1..Len(m.v) : m.v[i].signature = Reverse(m.v[i].s)
Unsigned(m) == m.t = "list" /\ \A i \in 1..Len(m.v) : m.v[i].signature = <<>>

\* C16 as stated: a successful init() descrambles and signs the manifests of
\* the metadata as well as those of the config, under both keys, and builds
\* the descriptors from the config's manifests only.
C16_MetadataDescrambledAndSigned ==
    \A s \in Sessions :
        (last[s].op = "init" /\ last[s].err = "ok") =>
            /\ \A fmt \in Fmts :
                  /\ Decoded(yt[s].vid_info[fmt]) /\ Signed(yt[s].vid_info[fmt])
                  /\ Decoded(yt[s].player_config.args[fmt])
                  /\ Signed(yt[s].player_config.args[fmt])
            /\ Added(s) = yt[s].player_config.args[progressive_fmts].v \o
                          yt[s].player_config.args[adaptive_fmts].v

\* C16, amended: a successful init() descrambles the manifests of the
\* metadata and of the config under both keys, applies the signature to the
\* config's manifests only (the metadata entries stay unsigned), and builds
\* the descriptors from the config's manifests only.
C16_MetadataDescrambledOnly ==
    \A s \in Sessions :
        (last[s].op = "init" /\ last[s].err = "ok") =>
            /\ Descramblings \subseteq StagesOf(last[s].trace)
            /\ {st \in StagesOf(last[s].trace) : st.op = "apply_signature"} =
                  {Stage("apply_signature", "config", fmt) : fmt \in Fmts}
            /\ {st \in StagesOf(last[s].trace) : st.op = "initialize_stream_objects"} =
                  {Stage("initialize_stream_objects", "config", fmt) : fmt \in Fmts}
            /\ \A fmt \in Fmts :
                  /\ Decoded(yt[s].vid_info[fmt]) /\ Unsigned(yt[s].vid_info[fmt])
                  /\ Decoded(yt[s].player_config.args[fmt])
                  /\ Signed(yt[s].player_config.args[fmt])
            /\ Added(s) = yt[s].player_config.args[progressive_fmts].v \o
                          yt[s].player_config.args[adaptive_fmts].v

\* a successful init() on metadata with one progressive entry and a config
\* with two: the metadata entry is decoded and unsigned, the two descriptors
\* come from the config
C16_Witness ==
    \E s \in Sessions :
        /\ last[s].op = "init" /\ last[s].err = "ok"
        /\ Len(yt[s].vid_info[progressive_fmts].v) = 1
        /\ yt[s].vid_info[progressive_fmts].v[1].signature = <<>>
        /\ Len(yt[s].player_config.args[progressive_fmts].v) = 2
        /\ Len(Added(s)) >= 2

----------------------------------------------------------------------------
(* C17 *)

\* C17: a prefetch() call requests the page first and then, after deriving
\* js_url and vid_info_url from it, the batch [js_url, vid_info_url], and
\* nothing else; when it returns normally js is a script body and vid_info a
\* metadata payload, and when it raises js and vid_info are both as before.
C17_PageThenBatchAllOrNothing ==
    [][\A s \in Sessions :
          (out'.op = "prefetch" /\ out'.self = s /\
           calls'[s].prefetch = calls[s].prefetch + 1)
          => /\ out'.trace \in {<<GetPage>>, <<GetPage, GetBatch>>}
             /\ GetBatch \in StagesOf(out'.trace) =>
                    /\ yt'[s].watch_html.t = "html"
                    /\ yt'[s].js_url = js_url(yt'[s].watch_html)
                    /\ yt'[s].vid_info_url = video_info_url(yt'[s].watch_html)
             /\ out'.err = "ok" =>
                    /\ out'.trace = <<GetPage, GetBatch>>
                    /\ yt'[s].js.t = "js" /\ yt'[s].vid_info.t = "raw"
             /\ out'.err # "ok" =>
                    /\ out'.err = "FetchError"
                    /\ yt'[s].js = yt[s].js /\ yt'[s].vid_info = yt[s].vid_info]_vars

\* a prefetch() whose batch request failed on a session that already holds a
\* script and parsed metadata from an earlier prefetch() and init()
C17_Witness ==
    /\ out.op = "prefetch" /\ out.err = "FetchError"
    /\ out.trace = <<GetPage, GetBatch>>
    /\ yt[out.self].js.t = "js" /\ yt[out.self].vid_info.t = "map"

----------------------------------------------------------------------------
(* C18 *)

\* C18: init(), an access of `streams` and the two registration operations
\* start no transport request and leave the fetched page, script and derived
\* URLs of every session untouched; an access of `streams` changes no
\* session state at all (artifacts, config, fmt_streams, monostate).
C18_OnlyPrefetchFetches ==
    [][/\ out'.op \in {"init", "streams"} \cup Registrations =>
            /\ ~Started(out'.trace, {"request.get"})
            /\ \A s \in Sessions :
                  /\ yt'[s].watch_html = yt[s].watch_html
                  /\ yt'[s].js = yt[s].js
                  /\ yt'[s].js_url = yt[s].js_url
                  /\ yt'[s].vid_info_url = yt[s].vid_info_url
                  /\ s # out'.self => yt'[s] = yt[s]
       /\ out'.op = "streams" => yt' = yt /\ heap' = heap
      ]_vars

\* the body of `streams` has just run on a session with three descriptors,
\* which the session still holds
C18_Witness ==
    /\ out.op = "streams" /\ out.trace = <<StreamsBody>>
    /\ Len(yt[out.self].fmt_streams) = 3
    /\ Len(out.value.fmt_streams) = 3

----------------------------------------------------------------------------
(* C19 *)

\* C19: an access of `streams` on a session whose last prefetch()/init()
\* call is a successful init() returns a collection holding exactly the
\* descriptors of fmt_streams.
C19_StreamsReflectInit ==
    (/\ out.op = "streams"
     /\ last[out.self].op = "init" /\ last[out.self].err = "ok")
    => out.value.fmt_streams = yt[out.self].fmt_streams

----------------------------------------------------------------------------
(* C20 *)

\* the last call on s is an init() that ran on what a prefetch() of s had
\* stored: the page, the script and the raw metadata payload, which this
\* init() parsed
InitAfterPrefetch(s) ==
    /\ last[s].op = "init"
    /\ Prefetched(s)
    /\ Len(last[s].trace) >= 2
    /\ yt[s].vid_info.t = "map" /\ yt[s].vid_info.other

\* the manifests of a config object, whichever object it is
ArgsOf(config) == IF config.t = "config" THEN config.args ELSE config

\* C20: two sessions whose prefetch() stored the same page, script and
\* metadata (the transport serves every prefetch() the same payload) end
\* init() alike: the same error after the same stages, descriptor lists of
\* the same length built from equal entries position by position, and the
\* same parsed metadata and config manifests.
C20_InitDeterministic ==
    \A s \in Sessions, t \in Sessions :
        (InitAfterPrefetch(s) /\ InitAfterPrefetch(t) /\ SameResponses(s, t)) =>
            /\ last[s].err = last[t].err
            /\ last[s].trace = last[t].trace
            /\ Len(yt[s].fmt_streams) = Len(yt[t].fmt_streams)
            /\ Entries(yt[s].fmt_streams) = Entries(yt[t].fmt_streams)
            /\ yt[s].vid_info = yt[t].vid_info
            /\ ArgsOf(yt[s].player_config) = ArgsOf(yt[t].player_config)

====
